---- MODULE Spec2Model ----
(***************************************************************************)
(* The anonymization core of scripts/anonymize.py (generalization,         *)
(* equivalence classes, the k-anonymity enforcement loop, l-diversity,     *)
(* linkage risk, NCP), driven the way main() of scripts/experiments.py     *)
(* drives it: one apply_k_anonymity run per k of k_values on the same      *)
(* original dataset, each followed by the metrics on the returned dataset. *)
(*                                                                         *)
(* pandas semantics the model writes out:                                  *)
(*  - pd.cut(right=False) maps a value outside every bin to NaN;           *)
(*  - DataFrame.groupby (dropna left at its default) leaves every row      *)
(*    with a NaN in a key column out of all groups;                        *)
(*  - Series.min() of an empty Series is NaN, and NaN >= k is False;       *)
(*  - Series.sum() skips NaN.                                              *)
(* Floating point is modelled by exact fractions.                          *)
(***************************************************************************)
EXTENDS Integers, Sequences, FiniteSets, TLC

(***************************************************************************)
(* Bounds of the model.                                                    *)
(***************************************************************************)
MaxRows == 3
MaxK == 3
MaxL == 2

(***************************************************************************)
(* Input domains: the values a cell of the original dataset is drawn from, *)
(* as two profiles.  The first varies the generalized quasi-identifiers:   *)
(* ages 22 and 27 share a decade bin but not a quartile bin, 150 lies      *)
(* outside every bin, and the two postal codes share a 3-character prefix. *)
(* The second varies Gender and the sensitive attribute and lets either be *)
(* missing (NaN).  A dataset may mix rows of both.                         *)
(***************************************************************************)
NaN == "NaN"

PROFILES ==
  << [ages |-> <<22, 27, 150>>,
      genders |-> <<"M">>,
      zips |-> << <<"1", "2", "3", "4", "5">>, <<"1", "2", "3", "9", "9">> >>,
      diagnoses |-> <<"Flu">>],
     [ages |-> <<22>>,
      genders |-> <<"M", "F", NaN>>,
      zips |-> << <<"1", "2", "3", "4", "5">> >>,
      diagnoses |-> <<"Asthma", NaN, "Flu">>] >>

QUASI_IDENTIFIERS == {"Age", "Gender", "ZIP_Code"}
SENSITIVE_ATTRIBUTE == "Diagnosis"

\* The k values main() runs, in ascending order as in main().  main() runs
\* [2, 3, 5]; the model runs every k from 1 to MaxK.
k_values == [i \in 1..MaxK |-> i]

(***************************************************************************)
(* Cells.  An Age cell is an integer (original data), a category label     *)
(* (after pd.cut) or NaN; the three shapes share one record type.          *)
(***************************************************************************)
IntAge(v) == [kind |-> "int", val |-> v, label |-> <<>>]
CatAge(l) == [kind |-> "cat", val |-> 0, label |-> l]
NaNAge == [kind |-> "nan", val |-> 0, label |-> <<>>]

Min2(a, b) == IF a <= b THEN a ELSE b

(***************************************************************************)
(* Generalization functions.                                               *)
(***************************************************************************)
age_generalizations ==
  << [bins   |-> <<0, 20, 30, 40, 50, 60, 70, 80, 90, 100>>,
      labels |-> << <<"0", "-", "1", "9">>,
                    <<"2", "0", "-", "2", "9">>,
                    <<"3", "0", "-", "3", "9">>,
                    <<"4", "0", "-", "4", "9">>,
                    <<"5", "0", "-", "5", "9">>,
                    <<"6", "0", "-", "6", "9">>,
                    <<"7", "0", "-", "7", "9">>,
                    <<"8", "0", "-", "8", "9">>,
                    <<"9", "0", "-", "9", "9">> >>],
     [bins   |-> <<0, 25, 50, 75, 100>>,
      labels |-> << <<"0", "-", "2", "4">>,
                    <<"2", "5", "-", "4", "9">>,
                    <<"5", "0", "-", "7", "4">>,
                    <<"7", "5", "-", "9", "9">> >>],
     [bins   |-> <<0, 50, 100>>,
      labels |-> << <<"0", "-", "4", "9">>,
                    <<"5", "0", "-", "9", "9">> >>],
     [bins   |-> <<0, 100>>,
      labels |-> << <<"0", "-", "9", "9">> >>] >>

zip_generalizations == <<4, 3, 2, 1>>

\* pd.cut(value, bins, labels, right=False): the label of the half-open bin
\* [bins[i], bins[i+1]) holding the value, NaN when no bin holds it.
pd_cut(v, bins, labels) ==
  IF \E i \in 1..Len(labels) : bins[i] <= v /\ v < bins[i + 1]
  THEN CatAge(labels[CHOOSE i \in 1..Len(labels) : bins[i] <= v /\ v < bins[i + 1]])
  ELSE NaNAge

generalize_age(df, bins, labels) ==
  [i \in DOMAIN df |-> [df[i] EXCEPT !.Age = pd_cut(df[i].Age.val, bins, labels)]]

ZIP_WIDTH == 5

str_slice(s, stop) == SubSeq(s, 1, Min2(stop, Len(s)))

RECURSIVE str_pad(_, _)
str_pad(s, width) == IF Len(s) >= width THEN s ELSE str_pad(Append(s, "*"), width)

generalize_zip(df, precision) ==
  [i \in DOMAIN df |->
     [df[i] EXCEPT !.ZIP_Code = str_pad(str_slice(df[i].ZIP_Code, precision), ZIP_WIDTH)]]

(***************************************************************************)
(* Equivalence classes as pandas groupby builds them.                      *)
(***************************************************************************)
IsNaNCell(row, q) ==
  CASE q = "Age" -> row.Age.kind = "nan"
    [] q = "Gender" -> row.Gender = NaN
    [] q = "Diagnosis" -> row.Diagnosis = NaN
    [] OTHER -> FALSE

KeyOf(row, qs) == [q \in qs |-> row[q]]

\* The rows groupby keeps: those with no NaN in a key column.
GroupedRows(df, qs) == {i \in DOMAIN df : \A q \in qs : ~IsNaNCell(df[i], q)}

\* The groups, each as the set of its row indices.
get_equivalence_classes(df, qs) ==
  {{j \in GroupedRows(df, qs) : KeyOf(df[j], qs) = KeyOf(df[i], qs)} :
     i \in GroupedRows(df, qs)}

\* eq_classes.size(): the size of every group.
GroupSizes(df, qs) ==
  [c \in get_equivalence_classes(df, qs) |-> Cardinality(c)]

\* MinAtLeast with the comparison turned round.
MinAtMost(sizes, k) ==
  IF DOMAIN sizes = {} THEN FALSE
  ELSE LET m == CHOOSE x \in {sizes[c] : c \in DOMAIN sizes} :
                  \A c \in DOMAIN sizes : x <= sizes[c]
       IN m <= k

\* eq_classes.size().min() >= k, NaN >= k being False.
MinAtLeast(sizes, k) ==
  IF DOMAIN sizes = {} THEN FALSE
  ELSE LET m == CHOOSE x \in {sizes[c] : c \in DOMAIN sizes} :
                  \A c \in DOMAIN sizes : x <= sizes[c]
       IN m >= k

check_k_anonymity(df, qs, k) ==
  IF Len(df) = 0 THEN TRUE ELSE MinAtLeast(GroupSizes(df, qs), k)

(***************************************************************************)
(* One pass of the while loop of apply_k_anonymity at level gen_level: the *)
(* candidate dataset, regenerated from the original df.                    *)
(***************************************************************************)
MAX_GEN_LEVEL == 10

age_level_idx(level) == level \div 2

\* zip_level_idx without the one-level delay.
zip_level_idx_undelayed(level) == level \div 2

zip_level_idx(level) == (level - 1) \div 2

GeneralizeAtLevel(df, qs, level) ==
  LET aged == IF "Age" \in qs
              THEN LET g == age_generalizations[
                              Min2(age_level_idx(level), Len(age_generalizations) - 1) + 1]
                   IN generalize_age(df, g.bins, g.labels)
              ELSE df
  IN IF "ZIP_Code" \in qs /\ zip_level_idx(level) >= 0
     THEN generalize_zip(aged,
            zip_generalizations[
              Min2(zip_level_idx(level), Len(zip_generalizations) - 1) + 1])
     ELSE aged

(***************************************************************************)
(* l-diversity.  failing_groups is modelled as the set of its (name,       *)
(* diversity) pairs; the order of the list is left out.                    *)
(***************************************************************************)
\* group[sensitive_col].dropna().nunique()
Diversity(df, c, sensitive_col) ==
  Cardinality({df[i][sensitive_col] : i \in {j \in c : ~IsNaNCell(df[j], sensitive_col)}})

GroupName(df, c, qs) == KeyOf(df[CHOOSE i \in c : TRUE], qs)

check_l_diversity(df, sensitive_col, qs, l_val) ==
  LET failing_groups ==
        {<<GroupName(df, c, qs), Diversity(df, c, sensitive_col)>> :
           c \in {g \in get_equivalence_classes(df, qs) :
                    Diversity(df, g, sensitive_col) < l_val}}
  IN [satisfied |-> Cardinality(failing_groups) = 0,
      failing_groups |-> failing_groups]

(***************************************************************************)
(* Linkage risk.  A float is a fraction [n, d] with d > 0.                 *)
(***************************************************************************)
Frac(n, d) == [n |-> n, d |-> d]

simulate_linkage_attack(df, attacker_qis) ==
  LET group_sizes == GroupSizes(df, attacker_qis)
      num_unique == Cardinality({c \in DOMAIN group_sizes : group_sizes[c] = 1})
      total_records == Len(df)
  IN IF total_records > 0 THEN Frac(num_unique, total_records) ELSE Frac(0, 1)

(***************************************************************************)
(* NCP.  compute_ncp reads the anonymized Age back from its string form:   *)
(* astype(str), split on "-", pd.to_numeric(errors="coerce").              *)
(***************************************************************************)
DigitChars == <<"0", "1", "2", "3", "4", "5", "6", "7", "8", "9">>

\* str() of a non-negative integer.
RECURSIVE IntToStr(_)
IntToStr(n) ==
  IF n < 10 THEN <<DigitChars[n + 1]>>
  ELSE Append(IntToStr(n \div 10), DigitChars[(n % 10) + 1])

\* Series.astype(str) on the Age column: an integer prints its digits, a
\* category its label, NaN the text "nan".
AgeAsStr(cell) ==
  CASE cell.kind = "int" -> IntToStr(cell.val)
    [] cell.kind = "cat" -> cell.label
    [] OTHER -> <<"n", "a", "n">>

\* str.split(sep): the pieces between the separators.
RECURSIVE str_split(_, _)
str_split(s, sep) ==
  IF \E i \in 1..Len(s) : s[i] = sep
  THEN LET p == CHOOSE i \in 1..Len(s) : s[i] = sep /\ \A j \in 1..(i - 1) : s[j] # sep
       IN <<SubSeq(s, 1, p - 1)>> \o str_split(SubSeq(s, p + 1, Len(s)), sep)
  ELSE <<s>>

\* A float that may be NaN.
Num(v) == [nan |-> FALSE, v |-> v]
NumNaN == [nan |-> TRUE, v |-> 0]

DigitValue(ch) == (CHOOSE i \in 1..Len(DigitChars) : DigitChars[i] = ch) - 1

RECURSIVE DigitsToInt(_)
DigitsToInt(s) ==
  IF Len(s) = 0 THEN 0
  ELSE 10 * DigitsToInt(SubSeq(s, 1, Len(s) - 1)) + DigitValue(s[Len(s)])

\* pd.to_numeric(errors="coerce") of one piece: its value when it is a run of
\* digits, NaN otherwise (the empty piece, "nan").
to_numeric(s) ==
  IF Len(s) > 0 /\ \A i \in 1..Len(s) : \E d \in 1..Len(DigitChars) : DigitChars[d] = s[i]
  THEN Num(DigitsToInt(s))
  ELSE NumNaN

\* IntervalColumn reading column 0 whatever column is asked for.
IntervalColumnZero(pieces, c) ==
  [i \in DOMAIN pieces |->
     IF Len(pieces[i]) >= 1 THEN to_numeric(pieces[i][1]) ELSE NumNaN]

\* Column c of str.split(expand=True): a row with fewer pieces holds None,
\* which to_numeric turns into NaN.
IntervalColumn(pieces, c) ==
  [i \in DOMAIN pieces |->
     IF Len(pieces[i]) >= c THEN to_numeric(pieces[i][c]) ELSE NumNaN]

MaxPieces(pieces) ==
  CHOOSE m \in {Len(pieces[i]) : i \in DOMAIN pieces} :
    \A i \in DOMAIN pieces : Len(pieces[i]) <= m

AbsDiff(a, b) == IF a >= b THEN a - b ELSE b - a

\* generalized_ranges = (high - low).abs(), after high.fillna(low).
GeneralizedRanges(anonymized_df) ==
  LET pieces == [i \in DOMAIN anonymized_df |->
                   str_split(AgeAsStr(anonymized_df[i].Age), "-")]
      low == IntervalColumn(pieces, 1)
      high0 == IF MaxPieces(pieces) = 1 THEN low ELSE IntervalColumn(pieces, 2)
      high == [i \in DOMAIN pieces |-> IF high0[i].nan THEN low[i] ELSE high0[i]]
  IN [i \in DOMAIN pieces |->
        IF high[i].nan \/ low[i].nan THEN NumNaN
        ELSE Num(AbsDiff(high[i].v, low[i].v))]

\* Series.sum(): NaN entries are skipped.
RECURSIVE SumSkipNaN(_)
SumSkipNaN(xs) ==
  IF Len(xs) = 0 THEN 0
  ELSE (IF xs[1].nan THEN 0 ELSE xs[1].v) + SumSkipNaN(Tail(xs))

RECURSIVE SumSeq(_)
SumSeq(xs) == IF Len(xs) = 0 THEN 0 ELSE xs[1] + SumSeq(Tail(xs))

ColumnMin(df) ==
  CHOOSE m \in {df[i].Age.val : i \in DOMAIN df} : \A i \in DOMAIN df : m <= df[i].Age.val

ColumnMax(df) ==
  CHOOSE m \in {df[i].Age.val : i \in DOMAIN df} : \A i \in DOMAIN df : m >= df[i].Age.val

\* astype(str).str.count(r'\*') of one postal code.
MaskedChars(zip) == Cardinality({i \in 1..Len(zip) : zip[i] = "*"})

FracAdd(a, b) == Frac(a.n * b.d + b.n * a.d, a.d * b.d)

\* qi_ncp of one quasi-identifier; a zero age range (continue) adds nothing.
qi_ncp(original_df, anonymized_df, qi) ==
  IF qi = "Age"
  THEN LET total_range == ColumnMax(original_df) - ColumnMin(original_df)
       IN IF total_range = 0 THEN Frac(0, 1)
          ELSE Frac(SumSkipNaN(GeneralizedRanges(anonymized_df)), total_range)
  ELSE IF qi = "ZIP_Code"
       THEN Frac(SumSeq([i \in DOMAIN anonymized_df |->
                           MaskedChars(anonymized_df[i].ZIP_Code)]), ZIP_WIDTH)
       ELSE Frac(0, 1)

\* compute_ncp on a non-empty original dataset.
compute_ncp(original_df, anonymized_df, qs) ==
  LET a == IF "Age" \in qs THEN qi_ncp(original_df, anonymized_df, "Age") ELSE Frac(0, 1)
      g == IF "Gender" \in qs THEN qi_ncp(original_df, anonymized_df, "Gender") ELSE Frac(0, 1)
      z == IF "ZIP_Code" \in qs THEN qi_ncp(original_df, anonymized_df, "ZIP_Code") ELSE Frac(0, 1)
      total_ncp == FracAdd(FracAdd(a, g), z)
  IN Frac(total_ncp.n, total_ncp.d * Len(original_df) * Cardinality(qs))

(***************************************************************************)
(* State.                                                                  *)
(***************************************************************************)
VARIABLES
  original_df,    \* the dataset main() loaded
  qis,            \* the quasi-identifiers passed to every call
  k_idx,          \* position of main()'s for loop in k_values
  k,              \* the k of the current apply_k_anonymity call
  anonymized_df,  \* apply_k_anonymity's anonymized_df
  temp_df,        \* apply_k_anonymity's temp_df
  gen_level,      \* apply_k_anonymity's gen_level
  pc,             \* "main" | "while" | "returned"
  outcome,        \* "none" | "Satisfied" | "Exhausted": which return was taken
  final_levels,   \* history: k -> gen_level at the return of the call for k
  report          \* the result of the last metric call on anonymized_df

vars == <<original_df, qis, k_idx, k, anonymized_df, temp_df, gen_level, pc,
          outcome, final_levels, report>>

NoReport == [op |-> "none"]

ProfileSize(p) == Len(p.ages) * Len(p.genders) * Len(p.zips) * Len(p.diagnoses)

\* Row number c of profile p.
ProfileRow(p, c) ==
  [Age |-> IntAge(p.ages[(c % Len(p.ages)) + 1]),
   Gender |-> p.genders[((c \div Len(p.ages)) % Len(p.genders)) + 1],
   ZIP_Code |-> p.zips[((c \div (Len(p.ages) * Len(p.genders))) % Len(p.zips)) + 1],
   Diagnosis |-> p.diagnoses[(c \div (Len(p.ages) * Len(p.genders) * Len(p.zips))) + 1]]

\* Row number c of the input domain: the rows of the first profile, then
\* those of the second.
RowOf(c) ==
  IF c < ProfileSize(PROFILES[1])
  THEN ProfileRow(PROFILES[1], c)
  ELSE ProfileRow(PROFILES[2], c - ProfileSize(PROFILES[1]))

RowCount == ProfileSize(PROFILES[1]) + ProfileSize(PROFILES[2])

\* The original datasets: up to MaxRows rows of the input domain.  No modelled
\* operation depends on the order of the rows, so one order per bag of rows
\* is enumerated.
Init ==
  /\ \E n \in 0..MaxRows :
       \E codes \in [1..n -> 0..(RowCount - 1)] :
         /\ \A i \in 1..(n - 1) : codes[i] <= codes[i + 1]
         /\ original_df = [i \in 1..n |-> RowOf(codes[i])]
  /\ qis \in (SUBSET QUASI_IDENTIFIERS) \ {{}}
  /\ k_idx = 1
  /\ k = 0
  /\ anonymized_df = <<>>
  /\ temp_df = <<>>
  /\ gen_level = 0
  /\ pc = "main"
  /\ outcome = "none"
  /\ final_levels = <<>>
  /\ report = NoReport

(***************************************************************************)
(* main(): for k in k_values: anonymized_df = apply_k_anonymity(...).      *)
(* The call runs up to the first test of the while condition.              *)
(***************************************************************************)
CallApply ==
  /\ pc = "main"
  /\ k_idx <= Len(k_values)
  /\ k' = k_values[k_idx]
  /\ anonymized_df' = original_df
  /\ temp_df' = original_df
  /\ gen_level' = 0
  /\ outcome' = "none"
  /\ pc' = "while"
  /\ UNCHANGED <<original_df, qis, k_idx, final_levels, report>>

\* The while condition holds: one generalization attempt, then the cap test.
Generalize ==
  /\ pc = "while"
  /\ ~check_k_anonymity(anonymized_df, qis, k)
  /\ temp_df' = GeneralizeAtLevel(original_df, qis, gen_level)
  /\ anonymized_df' = temp_df'
  /\ gen_level' = gen_level + 1
  /\ IF gen_level' > MAX_GEN_LEVEL
     THEN pc' = "returned" /\ outcome' = "Exhausted"
     ELSE pc' = "while" /\ outcome' = outcome
  /\ UNCHANGED <<original_df, qis, k_idx, k, final_levels, report>>

\* The while condition fails: "anonymity achieved", return anonymized_df.
Achieved ==
  /\ pc = "while"
  /\ check_k_anonymity(anonymized_df, qis, k)
  /\ pc' = "returned"
  /\ outcome' = "Satisfied"
  /\ UNCHANGED <<original_df, qis, k_idx, k, anonymized_df, temp_df, gen_level,
                 final_levels, report>>

(***************************************************************************)
(* The metrics, each called on the dataset the last call returned.         *)
(***************************************************************************)
LinkageAttack ==
  /\ pc = "returned"
  /\ report = NoReport
  /\ \E attacker_qis \in (SUBSET QUASI_IDENTIFIERS) \ {{}} :
       report' = [op |-> "risk", attacker_qis |-> attacker_qis,
                  risk |-> simulate_linkage_attack(anonymized_df, attacker_qis)]
  /\ UNCHANGED <<original_df, qis, k_idx, k, anonymized_df, temp_df, gen_level,
                 pc, outcome, final_levels>>

LDiversity ==
  /\ pc = "returned"
  /\ report = NoReport
  /\ \E l_val \in 1..MaxL :
       report' = [op |-> "ldiv", l_val |-> l_val,
                  result |-> check_l_diversity(anonymized_df, SENSITIVE_ATTRIBUTE,
                                               qis, l_val)]
  /\ UNCHANGED <<original_df, qis, k_idx, k, anonymized_df, temp_df, gen_level,
                 pc, outcome, final_levels>>

Ncp ==
  /\ pc = "returned"
  /\ report = NoReport
  /\ Len(original_df) > 0
  /\ report' = [op |-> "ncp", ncp |-> compute_ncp(original_df, anonymized_df, qis)]
  /\ UNCHANGED <<original_df, qis, k_idx, k, anonymized_df, temp_df, gen_level,
                 pc, outcome, final_levels>>

\* main() moves on to the next k of k_values.
NextK ==
  /\ pc = "returned"
  /\ final_levels' = Append(final_levels, gen_level)
  /\ k_idx' = k_idx + 1
  /\ report' = NoReport
  /\ pc' = "main"
  /\ UNCHANGED <<original_df, qis, k, anonymized_df, temp_df, gen_level, outcome>>

Next ==
  \/ CallApply
  \/ Generalize
  \/ Achieved
  \/ LinkageAttack
  \/ LDiversity
  \/ Ncp
  \/ NextK

Spec == Init /\ [][Next]_vars

(***************************************************************************)
(* Notions the properties are stated with.                                 *)
(***************************************************************************)
\* The equivalence classes of a dataset: the sets of rows sharing one tuple
\* of quasi-identifier values, a missing value being a value like any other.
\* Every row is in exactly one of them.
Partition(df, qs) ==
  {{j \in DOMAIN df : KeyOf(df[j], qs) = KeyOf(df[i], qs)} : i \in DOMAIN df}

\* k-anonymity: every equivalence class has at least kk members.
KAnonymous(df, qs, kk) == \A c \in Partition(df, qs) : Cardinality(c) >= kk

\* The distinct non-missing sensitive values of a set of rows.
DistinctSensitive(df, c) == {df[i].Diagnosis : i \in c} \ {NaN}

AgeRange(df) == ColumnMax(df) - ColumnMin(df)

NoAgeBinned == \A i \in DOMAIN anonymized_df : anonymized_df[i].Age.kind # "cat"

NoZipMasked ==
  \A i \in DOMAIN anonymized_df : anonymized_df[i].ZIP_Code = original_df[i].ZIP_Code

(***************************************************************************)
(* C1.  The outcome apply_k_anonymity reports matches the dataset it       *)
(* returns: Satisfied only with every equivalence class of the returned    *)
(* dataset holding at least k records, Exhausted only with a returned      *)
(* dataset that is not k-anonymous.                                        *)
(***************************************************************************)
C1_OutcomeMatchesDataset ==
  pc = "returned" =>
    /\ outcome = "Satisfied" => KAnonymous(anonymized_df, qis, k)
    /\ outcome = "Exhausted" => ~KAnonymous(anonymized_df, qis, k)

(***************************************************************************)
(* C2.  apply_k_anonymity makes at most 10 generalization attempts: the    *)
(* level counter, which starts at 0 and counts the attempts one by one,    *)
(* never passes 10.                                                        *)
(***************************************************************************)
C2_AtMostTenAttempts == gen_level <= MAX_GEN_LEVEL

(***************************************************************************)
(* C3.  The classes of get_equivalence_classes partition the dataset:      *)
(* every row of the original dataset and of every dataset the enforcer     *)
(* produces is in exactly one class.                                       *)
(***************************************************************************)
C3_ClassesPartition ==
  \A df \in {original_df, anonymized_df} :
    \A i \in DOMAIN df :
      Cardinality({c \in get_equivalence_classes(df, qis) : i \in c}) = 1

(***************************************************************************)
(* C4.  compute_ncp returns a value in [0, 1].                             *)
(***************************************************************************)
C4_NcpInUnitInterval ==
  report.op = "ncp" => (0 <= report.ncp.n /\ report.ncp.n <= report.ncp.d)

(***************************************************************************)
(* C5.  After the attempt at level L the candidate dataset is the original *)
(* dataset generalized by entry L of the schedule (decade, none),          *)
(* (decade, 4), (quartile, 4), (quartile, 3), (half, 3), (half, 2),        *)
(* (full, 2), (full, 1), every level past 7 repeating level 7; Age and     *)
(* ZIP_Code are touched only when configured.                              *)
(***************************************************************************)
\* age: 1 decade, 2 quartile, 3 half, 4 full; zip: the prefix kept, 0 for
\* a postal code left as it is.
ExpectedSchedule ==
  << [age |-> 1, zip |-> 0], [age |-> 1, zip |-> 4],
     [age |-> 2, zip |-> 4], [age |-> 2, zip |-> 3],
     [age |-> 3, zip |-> 3], [age |-> 3, zip |-> 2],
     [age |-> 4, zip |-> 2], [age |-> 4, zip |-> 1] >>

ExpectedCandidate(level) ==
  LET e == ExpectedSchedule[Min2(level, Len(ExpectedSchedule) - 1) + 1]
      aged == IF "Age" \in qis
              THEN generalize_age(original_df, age_generalizations[e.age].bins,
                                  age_generalizations[e.age].labels)
              ELSE original_df
  IN IF "ZIP_Code" \in qis /\ e.zip > 0 THEN generalize_zip(aged, e.zip) ELSE aged

C5_ScheduleFollowed ==
  pc \in {"while", "returned"} =>
    /\ gen_level = 0 => anonymized_df = original_df
    /\ gen_level > 0 => /\ anonymized_df = ExpectedCandidate(gen_level - 1)
                        /\ temp_df = ExpectedCandidate(gen_level - 1)

\* The run reached the repeated tail of the schedule with Age and ZIP_Code
\* configured, the candidate holding a full-range age and a 1-character
\* postal prefix.
C5_Witness ==
  /\ pc = "while"
  /\ gen_level = 9
  /\ qis = QUASI_IDENTIFIERS
  /\ \E i \in DOMAIN anonymized_df :
       /\ anonymized_df[i].Age = CatAge(<<"0", "-", "9", "9">>)
       /\ anonymized_df[i].ZIP_Code = <<"1", "*", "*", "*", "*">>

(***************************************************************************)
(* C6.  simulate_linkage_attack returns (classes of size 1) / (records),   *)
(* a value in [0, 1] that is 0 for an empty dataset and is 0 exactly when  *)
(* every class under the attacker's quasi-identifiers has size >= 2.       *)
(***************************************************************************)
C6_RiskIsSingletonRate ==
  report.op = "risk" =>
    LET classes == Partition(anonymized_df, report.attacker_qis)
        singletons == Cardinality({c \in classes : Cardinality(c) = 1})
        total == Len(anonymized_df)
        risk == report.risk
    IN /\ total > 0 => risk.n * total = singletons * risk.d
       /\ total = 0 => risk.n = 0
       /\ 0 <= risk.n /\ risk.n <= risk.d
       /\ risk.n = 0 <=> \A c \in classes : Cardinality(c) >= 2

(***************************************************************************)
(* C7.  check_l_diversity reports satisfied exactly when its failing-group *)
(* list is empty, and the list holds exactly the equivalence classes with  *)
(* fewer than l distinct non-missing sensitive values, each with that      *)
(* count.                                                                  *)
(***************************************************************************)
C7_FailingGroupsExact ==
  report.op = "ldiv" =>
    /\ report.result.satisfied <=> report.result.failing_groups = {}
    /\ report.result.failing_groups =
         {<<GroupName(anonymized_df, c, qis),
            Cardinality(DistinctSensitive(anonymized_df, c))>> :
            c \in {g \in Partition(anonymized_df, qis) :
                     Cardinality(DistinctSensitive(anonymized_df, g)) < report.l_val}}

(***************************************************************************)
(* C8.  Monotonic severity: on one dataset and one quasi-identifier set, a *)
(* larger k never ends at a lower level than a smaller k.                  *)
(***************************************************************************)
C8_MonotonicSeverity ==
  \A i \in DOMAIN final_levels : \A j \in DOMAIN final_levels :
    k_values[i] <= k_values[j] => final_levels[i] <= final_levels[j]

\* Two runs on one dataset ended at different levels, the one for the larger
\* k Satisfied after at least one attempt.
C8_Witness ==
  \E i \in DOMAIN final_levels : \E j \in DOMAIN final_levels :
    /\ k_values[i] < k_values[j]
    /\ final_levels[i] < final_levels[j]
    /\ 0 < final_levels[j]
    /\ final_levels[j] <= MAX_GEN_LEVEL

(***************************************************************************)
(* C9.  As claimed: compute_ncp returns 0 exactly when no Age value was    *)
(* replaced by a bin label and no ZIP_Code character was masked.           *)
(***************************************************************************)
C9_ZeroIffUnchanged ==
  report.op = "ncp" => (report.ncp.n = 0 <=> (NoAgeBinned /\ NoZipMasked))

\* C9, amended: compute_ncp returns 0 exactly when no ZIP_Code character was
\* masked and either no Age value was replaced by a bin label or all original
\* ages are equal (the age range is 0 and the Age contribution is skipped).
C9_ZeroIffUnchangedOrFlatAge ==
  report.op = "ncp" =>
    (report.ncp.n = 0 <=> (NoZipMasked /\ (NoAgeBinned \/ AgeRange(original_df) = 0)))

\* compute_ncp returned 0 for a dataset whose ages were binned: all original
\* ages are equal.
C9_Witness ==
  /\ report.op = "ncp"
  /\ report.ncp.n = 0
  /\ ~NoAgeBinned
  /\ Len(original_df) >= 2

(***************************************************************************)
(* C10.  Whenever apply_k_anonymity ends as Satisfied with k >= 2, the     *)
(* linkage risk of the returned dataset is 0 for the attacker              *)
(* quasi-identifiers qis and for every non-empty subset of them.           *)
(***************************************************************************)
C10_SatisfiedMeansNoRisk ==
  (/\ report.op = "risk"
   /\ outcome = "Satisfied"
   /\ k >= 2
   /\ report.attacker_qis \subseteq qis) => report.risk.n = 0

====
